---- MODULE Spec2Model ----
(***************************************************************************)
(* Dialogue manager "DM" of src/Code/src/types.ts: the grammar and its     *)
(* resolvers, the DMContext record, and the XState machine that sequences  *)
(* speak / listen turns with the speechstate actor.                        *)
(*                                                                         *)
(* Strings that the program converts (utterances, which go through         *)
(* toLowerCase and a grammar lookup) are sequences of one-character        *)
(* strings.  Strings that it only stores or concatenates (slot values,     *)
(* prompt texts) are TLA+ strings; a template literal is the tuple of its  *)
(* pieces.  JavaScript null / undefined / true / false are the strings     *)
(* NULL / UNDEFINED / JSTrue / JSFalse.                                    *)
(***************************************************************************)
EXTENDS Integers, Sequences, FiniteSets, TLC

\* ------------------------------------------------------------------------
\* Bounds of the model
\* ------------------------------------------------------------------------

\* largest number of hypotheses carried by one RECOGNISED event
MaxHyps == 2

\* utterances the recogniser may report as first hypothesis
Utterances ==
    { <<"V","l","a","d">>,
      <<"M","o","n","d","a","y">>,
      <<"n","o">>,
      <<"1","4">>,
      <<"y","e","s">>,
      <<"b","a","n","a","n","a">> }

\* utterances the recogniser may report as a lower-ranked hypothesis
AltUtterances == { <<"y","e","s">> }

\* ------------------------------------------------------------------------
\* JavaScript values
\* ------------------------------------------------------------------------
NULL == "null"
UNDEFINED == "undefined"
JSTrue == "true"
JSFalse == "false"

\* ToBoolean: the values the program tests are null, undefined, booleans
\* and strings
Truthy(v) == v \notin {NULL, UNDEFINED, JSFalse, ""}

\* !!v
BangBang(v) == IF Truthy(v) THEN JSTrue ELSE JSFalse

\* v != null (loose inequality: false exactly for null and undefined)
LooseNotNull(v) == v \notin {NULL, UNDEFINED}

\* ------------------------------------------------------------------------
\* Grammar and resolvers
\* ------------------------------------------------------------------------
EmptyEntry ==
    [person |-> UNDEFINED, day |-> UNDEFINED, time |-> UNDEFINED,
     yesno |-> UNDEFINED]

PersonEntry(p) == [EmptyEntry EXCEPT !.person = p]
DayEntry(d) == [EmptyEntry EXCEPT !.day = d]
TimeEntry(t) == [EmptyEntry EXCEPT !.time = t]
YesnoEntry(b) == [EmptyEntry EXCEPT !.yesno = b]

grammar ==
    <<"v","l","a","d">> :> PersonEntry("Vladislav Maraev") @@
    <<"a","y","a">> :> PersonEntry("Nayat Astaiza Soriano") @@
    <<"v","i","c","t","o","r","i","a">> :> PersonEntry("Victoria Daniilidou") @@
    <<"m","a","t","t","e","o">> :> PersonEntry("Matteo Ripamonti") @@
    <<"l","o","u">> :> PersonEntry("Lou Reed") @@
    <<"d","a","v","i","d">> :> PersonEntry("David Bowie") @@
    <<"m","o","n","d","a","y">> :> DayEntry("Monday") @@
    <<"t","u","e","s","d","a","y">> :> DayEntry("Tuesday") @@
    <<"w","e","d","n","e","s","d","a","y">> :> DayEntry("Wednesday") @@
    <<"t","h","u","r","s","d","a","y">> :> DayEntry("Thursday") @@
    <<"f","r","i","d","a","y">> :> DayEntry("Friday") @@
    <<"s","a","t","u","r","d","a","y">> :> DayEntry("Saturday") @@
    <<"s","u","n","d","a","y">> :> DayEntry("Sunday") @@
    <<"8">> :> TimeEntry("8:00") @@
    <<"9">> :> TimeEntry("9:00") @@
    <<"1","0">> :> TimeEntry("10:00") @@
    <<"1","1">> :> TimeEntry("11:00") @@
    <<"1","2">> :> TimeEntry("12:00") @@
    <<"1","3">> :> TimeEntry("13:00") @@
    <<"1","4">> :> TimeEntry("14:00") @@
    <<"1","5">> :> TimeEntry("15:00") @@
    <<"1","6">> :> TimeEntry("16:00") @@
    <<"1","7">> :> TimeEntry("17:00") @@
    <<"1","8">> :> TimeEntry("18:00") @@
    <<"1","9">> :> TimeEntry("19:00") @@
    <<"2","0">> :> TimeEntry("20:00") @@
    <<"y","e","s">> :> YesnoEntry(JSTrue) @@
    <<"y","e","p">> :> YesnoEntry(JSTrue) @@
    <<"o","f"," ","c","o","u","r","s","e">> :> YesnoEntry(JSTrue) @@
    <<"s","u","r","e">> :> YesnoEntry(JSTrue) @@
    <<"n","o">> :> YesnoEntry(JSFalse) @@
    <<"n","o","p","e">> :> YesnoEntry(JSFalse) @@
    <<"n","o"," ","w","a","y">> :> YesnoEntry(JSFalse) @@
    <<"n","e","v","e","r">> :> YesnoEntry(JSFalse)

LowerChar(c) ==
    CASE c = "A" -> "a"
      [] c = "B" -> "b"
      [] c = "C" -> "c"
      [] c = "D" -> "d"
      [] c = "E" -> "e"
      [] c = "F" -> "f"
      [] c = "G" -> "g"
      [] c = "H" -> "h"
      [] c = "I" -> "i"
      [] c = "J" -> "j"
      [] c = "K" -> "k"
      [] c = "L" -> "l"
      [] c = "M" -> "m"
      [] c = "N" -> "n"
      [] c = "O" -> "o"
      [] c = "P" -> "p"
      [] c = "Q" -> "q"
      [] c = "R" -> "r"
      [] c = "S" -> "s"
      [] c = "T" -> "t"
      [] c = "U" -> "u"
      [] c = "V" -> "v"
      [] c = "W" -> "w"
      [] c = "X" -> "x"
      [] c = "Y" -> "y"
      [] c = "Z" -> "z"
      [] OTHER -> c

\* variant of toLowerCase: the lookup key is the utterance as heard
toLowerCase_Identity(u) == u

\* String.prototype.toLowerCase on the characters the model uses
toLowerCase(u) == [i \in 1..Len(u) |-> LowerChar(u[i])]

\* grammar[utterance.toLowerCase()] || {}
Lookup(utterance) ==
    IF toLowerCase(utterance) \in DOMAIN grammar
    THEN grammar[toLowerCase(utterance)]
    ELSE EmptyEntry

isInGrammar(utterance) == toLowerCase(utterance) \in DOMAIN grammar

getPerson(utterance) == Lookup(utterance).person
getNumber(utterance) == Lookup(utterance).day
getFullDay(utterance) == Lookup(utterance).yesno
getTime(utterance) == Lookup(utterance).time
\* variant of getConfirm: the key is looked up as heard
getConfirm_CaseSensitive(utterance) ==
    IF utterance \in DOMAIN grammar
    THEN grammar[utterance].yesno
    ELSE UNDEFINED

getConfirm(utterance) == Lookup(utterance).yesno

\* ------------------------------------------------------------------------
\* Events, directives, context
\* ------------------------------------------------------------------------

\* event.value of RECOGNISED: a non-empty list of hypotheses, best first
RECURSIVE HypsOfLen(_)
HypsOfLen(n) ==
    IF n = 1
    THEN { << [utterance |-> u] >> : u \in Utterances }
    ELSE { Append(h, [utterance |-> a]) :
             h \in HypsOfLen(n - 1), a \in AltUtterances }

Hypotheses == UNION { HypsOfLen(n) : n \in 1..MaxHyps }

PlainEventTypes ==
    {"ASRTTS_READY", "CLICK", "SPEAK_COMPLETE", "LISTEN_COMPLETE",
     "ASR_NOINPUT"}

EventTypes == PlainEventTypes \cup {"RECOGNISED"}

Ev(t) == [type |-> t, value |-> << >>]
Recognised(h) == [type |-> "RECOGNISED", value |-> h]

DMEvents == { Ev(t) : t \in PlainEventTypes }
              \cup { Recognised(h) : h \in Hypotheses }

NoDirective == [type |-> "NONE", utterance |-> << >>]
PrepareDirective == [type |-> "PREPARE", utterance |-> << >>]
Speak(parts) == [type |-> "SPEAK", utterance |-> parts]
Listen == [type |-> "LISTEN", utterance |-> << >>]

\* lastResult: Hypothesis[] | null
NullResult == [isNull |-> TRUE, hyps |-> << >>]
Result(h) == [isNull |-> FALSE, hyps |-> h]

\* context of a freshly created machine
InitialContext ==
    [lastResult |-> NullResult, person |-> NULL, day |-> NULL,
     time |-> NULL, yesno |-> NULL]

\* variant of clearValues: the whole-day flag survives the reset
clearValues_KeepsYesno(c) ==
    [c EXCEPT !.lastResult = NullResult, !.person = NULL, !.day = NULL,
              !.time = NULL]

clearValues(c) ==
    [c EXCEPT !.lastResult = NullResult, !.person = NULL, !.day = NULL,
              !.time = NULL, !.yesno = NULL]

States ==
    {"Prepare", "WaitToStart", "Greeting",
     "AskPerson", "ListenPerson", "CheckPerson",
     "AskDay", "ListenDay", "CheckDay",
     "AskFullDay", "ListenFullDay", "CheckFullDay",
     "AskTime", "ListenTime", "CheckTime",
     "ConfirmAppointment", "ListenConfirm", "CheckConfirmation",
     "Done", "new state 1"}

SpeakStates ==
    {"Greeting", "AskPerson", "CheckPerson", "AskDay", "CheckDay",
     "AskFullDay", "CheckFullDay", "AskTime", "CheckTime",
     "ConfirmAppointment", "CheckConfirmation"}

ListenStates ==
    {"ListenPerson", "ListenDay", "ListenFullDay", "ListenTime",
     "ListenConfirm"}

\* the event types a state declares in its `on`
HandledEvents(s) ==
    CASE s = "Prepare" -> {"ASRTTS_READY"}
      [] s \in {"WaitToStart", "Done"} -> {"CLICK"}
      [] s \in SpeakStates -> {"SPEAK_COMPLETE"}
      [] s \in ListenStates ->
            {"RECOGNISED", "LISTEN_COMPLETE", "ASR_NOINPUT"}
      [] OTHER -> {}

\* ------------------------------------------------------------------------
\* Entry actions: the directive a state sends when it is entered
\* ------------------------------------------------------------------------
GreetingEntry == Speak(<<"Hi, let's create an appointment">>)
AskPersonEntry == Speak(<<"Who are you meeting with?">>)
AskDayEntry == Speak(<<"Which day do you want the meeting?">>)
AskFullDayEntry == Speak(<<"Will it take the whole day?">>)
AskTimeEntry == Speak(<<"What time is your meeting?">>)

CheckPersonEntry(c) ==
    Speak(IF LooseNotNull(c.person)
          THEN <<"You will meet ", c.person, ".">>
          ELSE <<"I didn't understand the person's name.">>)

CheckDayEntry(c) ==
    Speak(IF Truthy(c.day)
          THEN <<"The day will be ", c.day, ".">>
          ELSE <<"I did't understand the day">>)

CheckFullDayEntry(c) ==
    Speak(IF c.yesno = JSTrue
          THEN <<"Ok, you will take the whole day.">>
          ELSE <<"Ok, the meeting will not be the whole day.">>)

CheckTimeEntry(c) ==
    Speak(IF LooseNotNull(c.time)
          THEN <<"You will meet at ", c.time, ".">>
          ELSE <<"I did not understand the time.">>)

ConfirmAppointmentEntry(c) ==
    Speak(<<"Do you want me to create an appointment with ", c.person, " ",
            "on ", c.day, " ">>
          \o (IF c.yesno = JSTrue
              THEN <<"for the whole day?">>
              ELSE <<"at ", c.time, "?">>))

\* context.lastResult![0].utterance raises a TypeError when lastResult is
\* null (or has no first element)
LastUtteranceThrows(c) == c.lastResult.isNull \/ c.lastResult.hyps = << >>

LastUtterance(c) == c.lastResult.hyps[1].utterance

\* variant of CheckConfirmationEntry: the two answers are exchanged
CheckConfirmationEntry_Swapped(c) ==
    LET confirmation == getConfirm(LastUtterance(c)) IN
    Speak(IF confirmation = JSFalse
          THEN <<"Your appointment has been created!">>
          ELSE IF confirmation = JSTrue
               THEN <<"Okay, let's start over.">>
               ELSE <<"I didn't understand. Let's start over.">>)

CheckConfirmationEntry(c) ==
    LET confirmation == getConfirm(LastUtterance(c)) IN
    Speak(IF confirmation = JSTrue
          THEN <<"Your appointment has been created!">>
          ELSE IF confirmation = JSFalse
               THEN <<"Okay, let's start over.">>
               ELSE <<"I didn't understand. Let's start over.">>)

EntryThrows(s, c) == s = "CheckConfirmation" /\ LastUtteranceThrows(c)

Entry(s, c) ==
    CASE s = "Prepare" -> PrepareDirective
      [] s = "Greeting" -> GreetingEntry
      [] s = "AskPerson" -> AskPersonEntry
      [] s = "CheckPerson" -> CheckPersonEntry(c)
      [] s = "AskDay" -> AskDayEntry
      [] s = "CheckDay" -> CheckDayEntry(c)
      [] s = "AskFullDay" -> AskFullDayEntry
      [] s = "CheckFullDay" -> CheckFullDayEntry(c)
      [] s = "AskTime" -> AskTimeEntry
      [] s = "CheckTime" -> CheckTimeEntry(c)
      [] s = "ConfirmAppointment" -> ConfirmAppointmentEntry(c)
      [] s = "CheckConfirmation" -> CheckConfirmationEntry(c)
      [] s \in ListenStates -> Listen
      [] OTHER -> NoDirective

\* ------------------------------------------------------------------------
\* Guards and assignments of the transitions
\* ------------------------------------------------------------------------
ListenPersonAssign(c, value) ==
    LET person == getPerson(value[1].utterance) IN
    IF Truthy(person)
    THEN [c EXCEPT !.person = person, !.lastResult = Result(value)]
    ELSE [c EXCEPT !.lastResult = Result(value)]

\* variant of ListenDayAssign: a miss stores the undefined result
ListenDayAssign_ClearsOnMiss(c, value) ==
    LET day == getNumber(value[1].utterance) IN
    [c EXCEPT !.day = IF Truthy(day) THEN day ELSE NULL,
              !.lastResult = Result(value)]

ListenDayAssign(c, value) ==
    LET day == getNumber(value[1].utterance) IN
    IF Truthy(day)
    THEN [c EXCEPT !.day = day, !.lastResult = Result(value)]
    ELSE [c EXCEPT !.lastResult = Result(value)]

\* variant of ListenFullDayAssign: resolves the last hypothesis
ListenFullDayAssign_LastHypothesis(c, value) ==
    LET confirmation == getConfirm(value[Len(value)].utterance) IN
    IF confirmation # UNDEFINED
    THEN [c EXCEPT !.yesno = confirmation, !.lastResult = Result(value)]
    ELSE [c EXCEPT !.lastResult = Result(value)]

ListenFullDayAssign(c, value) ==
    LET confirmation == getConfirm(value[1].utterance) IN
    IF confirmation # UNDEFINED
    THEN [c EXCEPT !.yesno = confirmation, !.lastResult = Result(value)]
    ELSE [c EXCEPT !.lastResult = Result(value)]

ListenTimeAssign(c, value) ==
    LET time == getTime(value[1].utterance) IN
    IF Truthy(time)
    THEN [c EXCEPT !.time = time, !.lastResult = Result(value)]
    ELSE [c EXCEPT !.lastResult = Result(value)]

ListenConfirmAssign(c, value) ==
    LET confirmation == getConfirm(value[1].utterance) IN
    IF confirmation # UNDEFINED
    THEN [c EXCEPT !.lastResult = Result(value)]
    ELSE [c EXCEPT !.lastResult = Result(value)]

\* variant of NoInputAssign: lastResult is kept
NoInputAssign_Keeps(c) == c

\* assign({ lastResult: null })
NoInputAssign(c) == [c EXCEPT !.lastResult = NullResult]

\* targets of the guarded transition lists, first guard that holds wins
\* variant of ListenPersonTarget: the guard of ListenDay
ListenPersonTarget_Tautology(c) ==
    IF LooseNotNull(BangBang(c.person)) THEN "CheckPerson" ELSE "AskPerson"

ListenPersonTarget(c) ==
    IF LooseNotNull(c.person) THEN "CheckPerson" ELSE "AskPerson"

CheckPersonTarget(c) ==
    IF LooseNotNull(c.person) THEN "AskDay" ELSE "AskPerson"

ListenDayTarget(c) ==
    IF LooseNotNull(BangBang(c.day)) THEN "CheckDay" ELSE "AskDay"

\* variant of CheckDayTarget: advances whatever the slot holds
CheckDayTarget_Advances(c) == "AskFullDay"

CheckDayTarget(c) ==
    IF Truthy(c.day) THEN "AskFullDay" ELSE "AskDay"

ListenFullDayTarget(c) ==
    IF c.yesno # UNDEFINED THEN "CheckFullDay" ELSE "AskFullDay"

\* variant of CheckFullDayTarget: anything but true counts as no
CheckFullDayTarget_NullIsNo(c) ==
    IF c.yesno = JSTrue THEN "ConfirmAppointment" ELSE "AskTime"

\* variant of CheckFullDayTarget: a set flag always leads to AskTime
CheckFullDayTarget_AsksTime(c) ==
    IF c.yesno \in {JSTrue, JSFalse} THEN "AskTime" ELSE "AskFullDay"

CheckFullDayTarget(c) ==
    IF c.yesno = JSTrue THEN "ConfirmAppointment"
    ELSE IF c.yesno = JSFalse THEN "AskTime"
    ELSE "AskFullDay"

ListenTimeTarget(c) ==
    IF LooseNotNull(BangBang(c.time)) THEN "CheckTime" ELSE "AskTime"

\* variant of CheckTimeTarget: the guard of ListenTime
CheckTimeTarget_Tautology(c) ==
    IF LooseNotNull(BangBang(c.time)) THEN "ConfirmAppointment" ELSE "AskTime"

CheckTimeTarget(c) ==
    IF Truthy(c.time) THEN "ConfirmAppointment" ELSE "AskTime"

ListenConfirmTarget(c) ==
    IF LooseNotNull(BangBang(c.yesno))
    THEN "CheckConfirmation"
    ELSE "ConfirmAppointment"

\* variant of CheckConfirmationTarget: a created appointment ends in Done
CheckConfirmationTarget_Done(c) ==
    IF getConfirm(LastUtterance(c)) = JSTrue THEN "Done"
    ELSE IF getConfirm(LastUtterance(c)) = JSFalse THEN "Greeting"
    ELSE "Greeting"

CheckConfirmationTarget(c) ==
    IF getConfirm(LastUtterance(c)) = JSTrue THEN "Greeting"
    ELSE IF getConfirm(LastUtterance(c)) = JSFalse THEN "Greeting"
    ELSE "Greeting"

\* ------------------------------------------------------------------------
\* State
\* ------------------------------------------------------------------------
VARIABLES
    state,      \* state value of the DM actor
    context,    \* DMContext without spstRef
    status,     \* "active", or "error" once a transition has thrown
    sent,       \* directive sent to spstRef by the latest step
    queue,      \* replies of the speechstate actor not yet delivered
    env,        \* "open": any event at any time; "adapter": see Replies
    prev,       \* history: state value before the latest step
    lastEvent,  \* history: event delivered by the latest step
    visited,    \* history: states entered since the latest entry of Greeting
    progress,   \* history: how far this attempt has followed HappyScript
    failed,     \* history: latest recognition that resolved no slot value
    outcome,    \* history: what the current or latest Listen visit received
    startup,    \* history: how much of ASRTTS_READY, then CLICK, was received
    input,      \* argument handed to the resolvers (resolver runs only)
    call        \* latest resolver call and its result (resolver runs only)

vars ==
    <<state, context, status, sent, queue, env, prev, lastEvent, visited,
      progress, failed, outcome, startup, input, call>>

\* ------------------------------------------------------------------------
\* The speechstate actor as the machine sees it: one ASRTTS_READY per
\* PREPARE, one SPEAK_COMPLETE per SPEAK, and per LISTEN either RECOGNISED
\* or ASR_NOINPUT followed by LISTEN_COMPLETE; delivery is in order
\* ------------------------------------------------------------------------
Replies(d) ==
    CASE d.type = "PREPARE" -> { << Ev("ASRTTS_READY") >> }
      [] d.type = "SPEAK" -> { << Ev("SPEAK_COMPLETE") >> }
      [] d.type = "LISTEN" ->
            { << Recognised(h), Ev("LISTEN_COMPLETE") >> : h \in Hypotheses }
            \cup { << Ev("ASR_NOINPUT"), Ev("LISTEN_COMPLETE") >> }
      [] OTHER -> { << >> }

FromAdapter(e) == env = "adapter" /\ e.type # "CLICK"

\* the event is available for delivery
Receive(e) == FromAdapter(e) => (queue # << >> /\ Head(queue) = e)

Rest(e) == IF FromAdapter(e) THEN Tail(queue) ELSE queue

Deliver(e, d) ==
    IF env = "adapter"
    THEN \E r \in Replies(d) : queue' = Rest(e) \o r
    ELSE queue' = queue

\* ------------------------------------------------------------------------
\* History bookkeeping
\* ------------------------------------------------------------------------
HappyScript ==
    << <<"V","l","a","d">>, <<"M","o","n","d","a","y">>, <<"n","o">>,
       <<"1","4">>, <<"y","e","s">> >>

OffScript == [on |-> FALSE, n |-> 0]
OnScript(k) == [on |-> TRUE, n |-> k]

Heard(u) ==
    IF progress.on /\ progress.n < Len(HappyScript)
       /\ u = HappyScript[progress.n + 1]
    THEN OnScript(progress.n + 1)
    ELSE OffScript

Stage(s) ==
    CASE s \in {"AskPerson", "ListenPerson", "CheckPerson"} -> "person"
      [] s \in {"AskDay", "ListenDay", "CheckDay"} -> "day"
      [] s \in {"AskFullDay", "ListenFullDay", "CheckFullDay"} -> "wholeDay"
      [] s \in {"AskTime", "ListenTime", "CheckTime"} -> "time"
      [] s \in {"ConfirmAppointment", "ListenConfirm", "CheckConfirmation"}
            -> "confirm"
      [] OTHER -> "none"

\* value of the slot a stage collects; the final confirmation has none
Slot(g, c) ==
    CASE g = "person" -> c.person
      [] g = "day" -> c.day
      [] g = "wholeDay" -> c.yesno
      [] g = "time" -> c.time
      [] OTHER -> NULL

NoFail == [stage |-> "none", slot |-> NULL]

Attempt(resolved) ==
    IF resolved THEN NoFail
    ELSE [stage |-> Stage(state), slot |-> Slot(Stage(state), context)]

\* the four slots of the Session, without lastResult
Slots(c) == [person |-> c.person, day |-> c.day, yesno |-> c.yesno,
             time |-> c.time]

NothingHeard ==
    [kind |-> "nothing", stage |-> "none", slots |-> Slots(InitialContext)]

\* a Listen state receives RECOGNISED or ASR_NOINPUT: remember which, in
\* which stage, and the slots as they were
HeardNow(kind) ==
    [kind |-> kind, stage |-> Stage(state), slots |-> Slots(context)]

\* resolver runs: a text with the lower-case text it was derived from
NoInput == [text |-> << >>, lower |-> << >>]
NoCall == [fn |-> "none", arg |-> NoInput, result |-> UNDEFINED]

\* ------------------------------------------------------------------------
\* Taking a transition
\* ------------------------------------------------------------------------
\* start-up events received so far: "none", then "ready" once ASRTTS_READY
\* was received, then "clicked" once a CLICK was received after it
StartUpAfter(s, e) ==
    CASE s = "none" /\ e.type = "ASRTTS_READY" -> "ready"
      [] s = "ready" /\ e.type = "CLICK" -> "clicked"
      [] OTHER -> s

Active(s) == status = "active" /\ state = s

\* transition with a target: exit actions and assignments have produced c,
\* then the target's entry action runs; if it throws the actor stops with
\* status "error" and keeps its snapshot
Take(e, target, c) ==
    /\ prev' = state
    /\ lastEvent' = e
    /\ startup' = StartUpAfter(startup, e)
    /\ IF EntryThrows(target, c)
       THEN /\ status' = "error"
            /\ sent' = NoDirective
            /\ queue' = Rest(e)
            /\ UNCHANGED <<state, context, visited>>
       ELSE /\ state' = target
            /\ context' = c
            /\ status' = status
            /\ sent' = Entry(target, c)
            /\ visited' = IF target = "Greeting"
                          THEN {"Greeting"}
                          ELSE visited \cup {target}
            /\ Deliver(e, Entry(target, c))
    /\ UNCHANGED <<env, input, call>>

\* transition without a target: only the assignment
Assign(e, c) ==
    /\ prev' = state
    /\ lastEvent' = e
    /\ startup' = StartUpAfter(startup, e)
    /\ context' = c
    /\ sent' = NoDirective
    /\ queue' = Rest(e)
    /\ UNCHANGED <<state, status, visited, env, input, call>>

\* ------------------------------------------------------------------------
\* Initial states: the actor has been started, has entered Prepare and has
\* sent PREPARE
\* ------------------------------------------------------------------------
InitMachine ==
    /\ state = "Prepare"
    /\ context = InitialContext
    /\ status = "active"
    /\ sent = PrepareDirective
    /\ prev = "Prepare"
    /\ lastEvent = [type |-> "xstate.init", value |-> << >>]
    /\ visited = {}
    /\ progress = OnScript(0)
    /\ failed = NoFail
    /\ outcome = NothingHeard
    /\ startup = "none"

\* the resolvers are not being exercised on their own
ResolverIdle ==
    /\ input = NoInput
    /\ call = NoCall

Init ==
    /\ InitMachine
    /\ env = "open"
    /\ queue = << >>
    /\ ResolverIdle

InitAdapter ==
    /\ InitMachine
    /\ env = "adapter"
    /\ queue \in Replies(PrepareDirective)
    /\ ResolverIdle

\* ------------------------------------------------------------------------
\* Transitions, one per declared handler
\* ------------------------------------------------------------------------
\* variant of Prepare_ASRTTS_READY: starts the dialogue without a CLICK
Prepare_ASRTTS_READY_Starts ==
    LET e == Ev("ASRTTS_READY") IN
    /\ Active("Prepare") /\ Receive(e)
    /\ Take(e, "Greeting", context)
    /\ UNCHANGED <<progress, failed, outcome>>

Prepare_ASRTTS_READY ==
    LET e == Ev("ASRTTS_READY") IN
    /\ Active("Prepare") /\ Receive(e)
    /\ Take(e, "WaitToStart", context)
    /\ UNCHANGED <<progress, failed, outcome>>

\* variant of CLICK: the handler is declared for every state
CLICK_Anywhere ==
    LET e == Ev("CLICK") IN
    /\ status = "active" /\ Receive(e)
    /\ Take(e, "Greeting", context)
    /\ UNCHANGED <<progress, failed, outcome>>

\* WaitToStart and Done declare the same handler
CLICK ==
    LET e == Ev("CLICK") IN
    /\ (Active("WaitToStart") \/ Active("Done")) /\ Receive(e)
    /\ Take(e, "Greeting", context)
    /\ UNCHANGED <<progress, failed, outcome>>

Greeting_SPEAK_COMPLETE ==
    LET e == Ev("SPEAK_COMPLETE") IN
    /\ Active("Greeting") /\ Receive(e)
    /\ Take(e, "AskPerson", context)
    /\ progress' = OnScript(0)
    /\ UNCHANGED <<failed, outcome>>

\* ---- person
AskPerson_SPEAK_COMPLETE ==
    LET e == Ev("SPEAK_COMPLETE") IN
    /\ Active("AskPerson") /\ Receive(e)
    /\ Take(e, "ListenPerson", context)
    /\ failed' = NoFail
    /\ outcome' = NothingHeard
    /\ UNCHANGED progress

ListenPerson_RECOGNISED(value) ==
    LET e == Recognised(value) IN
    /\ Active("ListenPerson") /\ Receive(e)
    /\ Assign(e, ListenPersonAssign(context, value))
    /\ progress' = Heard(value[1].utterance)
    /\ failed' = Attempt(getPerson(value[1].utterance) # UNDEFINED)
    /\ outcome' = HeardNow("RECOGNISED")

ListenPerson_LISTEN_COMPLETE ==
    LET e == Ev("LISTEN_COMPLETE") IN
    /\ Active("ListenPerson") /\ Receive(e)
    /\ Take(e, ListenPersonTarget(context), context)
    /\ UNCHANGED <<progress, failed, outcome>>

\* variant of ListenPerson_ASR_NOINPUT: reprompts at once, as ListenFullDay
ListenPerson_ASR_NOINPUT_Reprompts ==
    LET e == Ev("ASR_NOINPUT") IN
    /\ Active("ListenPerson") /\ Receive(e)
    /\ Take(e, "AskPerson", NoInputAssign(context))
    /\ progress' = OffScript
    /\ outcome' = HeardNow("ASR_NOINPUT")
    /\ UNCHANGED failed

ListenPerson_ASR_NOINPUT ==
    LET e == Ev("ASR_NOINPUT") IN
    /\ Active("ListenPerson") /\ Receive(e)
    /\ Assign(e, NoInputAssign(context))
    /\ progress' = OffScript
    /\ outcome' = HeardNow("ASR_NOINPUT")
    /\ UNCHANGED failed

CheckPerson_SPEAK_COMPLETE ==
    LET e == Ev("SPEAK_COMPLETE") IN
    /\ Active("CheckPerson") /\ Receive(e)
    /\ Take(e, CheckPersonTarget(context), context)
    /\ UNCHANGED <<progress, failed, outcome>>

\* ---- day
AskDay_SPEAK_COMPLETE ==
    LET e == Ev("SPEAK_COMPLETE") IN
    /\ Active("AskDay") /\ Receive(e)
    /\ Take(e, "ListenDay", context)
    /\ failed' = NoFail
    /\ outcome' = NothingHeard
    /\ UNCHANGED progress

ListenDay_RECOGNISED(value) ==
    LET e == Recognised(value) IN
    /\ Active("ListenDay") /\ Receive(e)
    /\ Assign(e, ListenDayAssign(context, value))
    /\ progress' = Heard(value[1].utterance)
    /\ failed' = Attempt(getNumber(value[1].utterance) # UNDEFINED)
    /\ outcome' = HeardNow("RECOGNISED")

ListenDay_LISTEN_COMPLETE ==
    LET e == Ev("LISTEN_COMPLETE") IN
    /\ Active("ListenDay") /\ Receive(e)
    /\ Take(e, ListenDayTarget(context), context)
    /\ UNCHANGED <<progress, failed, outcome>>

ListenDay_ASR_NOINPUT ==
    LET e == Ev("ASR_NOINPUT") IN
    /\ Active("ListenDay") /\ Receive(e)
    /\ Assign(e, NoInputAssign(context))
    /\ progress' = OffScript
    /\ outcome' = HeardNow("ASR_NOINPUT")
    /\ UNCHANGED failed

CheckDay_SPEAK_COMPLETE ==
    LET e == Ev("SPEAK_COMPLETE") IN
    /\ Active("CheckDay") /\ Receive(e)
    /\ Take(e, CheckDayTarget(context), context)
    /\ UNCHANGED <<progress, failed, outcome>>

\* ---- whole day
\* variant of AskFullDay_SPEAK_COMPLETE: any completion event starts listening
AskFullDay_SPEAK_COMPLETE_AnyCompletion ==
    \E t \in {"SPEAK_COMPLETE", "LISTEN_COMPLETE"} :
        LET e == Ev(t) IN
        /\ Active("AskFullDay") /\ Receive(e)
        /\ Take(e, "ListenFullDay", context)
        /\ failed' = NoFail
        /\ outcome' = NothingHeard
        /\ UNCHANGED progress

AskFullDay_SPEAK_COMPLETE ==
    LET e == Ev("SPEAK_COMPLETE") IN
    /\ Active("AskFullDay") /\ Receive(e)
    /\ Take(e, "ListenFullDay", context)
    /\ failed' = NoFail
    /\ outcome' = NothingHeard
    /\ UNCHANGED progress

ListenFullDay_RECOGNISED(value) ==
    LET e == Recognised(value) IN
    /\ Active("ListenFullDay") /\ Receive(e)
    /\ Assign(e, ListenFullDayAssign(context, value))
    /\ progress' = Heard(value[1].utterance)
    /\ failed' = Attempt(getFullDay(value[1].utterance) # UNDEFINED)
    /\ outcome' = HeardNow("RECOGNISED")

ListenFullDay_LISTEN_COMPLETE ==
    LET e == Ev("LISTEN_COMPLETE") IN
    /\ Active("ListenFullDay") /\ Receive(e)
    /\ Take(e, ListenFullDayTarget(context), context)
    /\ UNCHANGED <<progress, failed, outcome>>

ListenFullDay_ASR_NOINPUT ==
    LET e == Ev("ASR_NOINPUT") IN
    /\ Active("ListenFullDay") /\ Receive(e)
    /\ Take(e, "AskFullDay", NoInputAssign(context))
    /\ progress' = OffScript
    /\ outcome' = HeardNow("ASR_NOINPUT")
    /\ UNCHANGED failed

CheckFullDay_SPEAK_COMPLETE ==
    LET e == Ev("SPEAK_COMPLETE") IN
    /\ Active("CheckFullDay") /\ Receive(e)
    /\ Take(e, CheckFullDayTarget(context), context)
    /\ UNCHANGED <<progress, failed, outcome>>

\* ---- time
AskTime_SPEAK_COMPLETE ==
    LET e == Ev("SPEAK_COMPLETE") IN
    /\ Active("AskTime") /\ Receive(e)
    /\ Take(e, "ListenTime", context)
    /\ failed' = NoFail
    /\ outcome' = NothingHeard
    /\ UNCHANGED progress

ListenTime_RECOGNISED(value) ==
    LET e == Recognised(value) IN
    /\ Active("ListenTime") /\ Receive(e)
    /\ Assign(e, ListenTimeAssign(context, value))
    /\ progress' = Heard(value[1].utterance)
    /\ failed' = Attempt(getTime(value[1].utterance) # UNDEFINED)
    /\ outcome' = HeardNow("RECOGNISED")

ListenTime_LISTEN_COMPLETE ==
    LET e == Ev("LISTEN_COMPLETE") IN
    /\ Active("ListenTime") /\ Receive(e)
    /\ Take(e, ListenTimeTarget(context), context)
    /\ UNCHANGED <<progress, failed, outcome>>

ListenTime_ASR_NOINPUT ==
    LET e == Ev("ASR_NOINPUT") IN
    /\ Active("ListenTime") /\ Receive(e)
    /\ Assign(e, NoInputAssign(context))
    /\ progress' = OffScript
    /\ outcome' = HeardNow("ASR_NOINPUT")
    /\ UNCHANGED failed

CheckTime_SPEAK_COMPLETE ==
    LET e == Ev("SPEAK_COMPLETE") IN
    /\ Active("CheckTime") /\ Receive(e)
    /\ Take(e, CheckTimeTarget(context), context)
    /\ UNCHANGED <<progress, failed, outcome>>

\* ---- final confirmation
ConfirmAppointment_SPEAK_COMPLETE ==
    LET e == Ev("SPEAK_COMPLETE") IN
    /\ Active("ConfirmAppointment") /\ Receive(e)
    /\ Take(e, "ListenConfirm", context)
    /\ failed' = NoFail
    /\ outcome' = NothingHeard
    /\ UNCHANGED progress

ListenConfirm_RECOGNISED(value) ==
    LET e == Recognised(value) IN
    /\ Active("ListenConfirm") /\ Receive(e)
    /\ Assign(e, ListenConfirmAssign(context, value))
    /\ progress' = Heard(value[1].utterance)
    /\ failed' = Attempt(getConfirm(value[1].utterance) # UNDEFINED)
    /\ outcome' = HeardNow("RECOGNISED")

ListenConfirm_LISTEN_COMPLETE ==
    LET e == Ev("LISTEN_COMPLETE") IN
    /\ Active("ListenConfirm") /\ Receive(e)
    /\ Take(e, ListenConfirmTarget(context), context)
    /\ UNCHANGED <<progress, failed, outcome>>

\* variant of ListenConfirm_ASR_NOINPUT: no target, as in ListenPerson
ListenConfirm_ASR_NOINPUT_Stays ==
    LET e == Ev("ASR_NOINPUT") IN
    /\ Active("ListenConfirm") /\ Receive(e)
    /\ Assign(e, NoInputAssign(context))
    /\ progress' = OffScript
    /\ outcome' = HeardNow("ASR_NOINPUT")
    /\ UNCHANGED failed

ListenConfirm_ASR_NOINPUT ==
    LET e == Ev("ASR_NOINPUT") IN
    /\ Active("ListenConfirm") /\ Receive(e)
    /\ Take(e, "ConfirmAppointment", NoInputAssign(context))
    /\ progress' = OffScript
    /\ outcome' = HeardNow("ASR_NOINPUT")
    /\ UNCHANGED failed

\* the guards read lastResult![0]; the exit action clearValues runs before
\* the entry action of the target
CheckConfirmation_SPEAK_COMPLETE ==
    LET e == Ev("SPEAK_COMPLETE") IN
    /\ Active("CheckConfirmation") /\ Receive(e)
    /\ IF LastUtteranceThrows(context)
       THEN /\ status' = "error"
            /\ sent' = NoDirective
            /\ queue' = Rest(e)
            /\ prev' = state
            /\ lastEvent' = e
            /\ startup' = StartUpAfter(startup, e)
            /\ UNCHANGED <<state, context, visited, env, input, call>>
       ELSE Take(e, CheckConfirmationTarget(context), clearValues(context))
    /\ UNCHANGED <<progress, failed, outcome>>

\* an event the current state declares no handler for, or any event once
\* the actor has stopped, is dropped
Ignored(e) ==
    /\ status = "error" \/ e.type \notin HandledEvents(state)
    /\ Receive(e)
    /\ prev' = state
    /\ lastEvent' = e
    /\ startup' = StartUpAfter(startup, e)
    /\ sent' = NoDirective
    /\ queue' = Rest(e)
    /\ UNCHANGED <<state, context, status, visited, env, progress, failed,
                   outcome, input, call>>

Next ==
    \/ Prepare_ASRTTS_READY
    \/ CLICK
    \/ Greeting_SPEAK_COMPLETE
    \/ AskPerson_SPEAK_COMPLETE
    \/ \E value \in Hypotheses : ListenPerson_RECOGNISED(value)
    \/ ListenPerson_LISTEN_COMPLETE
    \/ ListenPerson_ASR_NOINPUT
    \/ CheckPerson_SPEAK_COMPLETE
    \/ AskDay_SPEAK_COMPLETE
    \/ \E value \in Hypotheses : ListenDay_RECOGNISED(value)
    \/ ListenDay_LISTEN_COMPLETE
    \/ ListenDay_ASR_NOINPUT
    \/ CheckDay_SPEAK_COMPLETE
    \/ AskFullDay_SPEAK_COMPLETE
    \/ \E value \in Hypotheses : ListenFullDay_RECOGNISED(value)
    \/ ListenFullDay_LISTEN_COMPLETE
    \/ ListenFullDay_ASR_NOINPUT
    \/ CheckFullDay_SPEAK_COMPLETE
    \/ AskTime_SPEAK_COMPLETE
    \/ \E value \in Hypotheses : ListenTime_RECOGNISED(value)
    \/ ListenTime_LISTEN_COMPLETE
    \/ ListenTime_ASR_NOINPUT
    \/ CheckTime_SPEAK_COMPLETE
    \/ ConfirmAppointment_SPEAK_COMPLETE
    \/ \E value \in Hypotheses : ListenConfirm_RECOGNISED(value)
    \/ ListenConfirm_LISTEN_COMPLETE
    \/ ListenConfirm_ASR_NOINPUT
    \/ CheckConfirmation_SPEAK_COMPLETE
    \/ \E e \in DMEvents : Ignored(e)

\* the machine as an open system: any event may be sent to it at any time
Spec == Init /\ [][Next]_vars

\* the machine together with a speechstate actor that keeps its protocol
SpecAdapter == InitAdapter /\ [][Next]_vars

TypeOK ==
    /\ state \in States
    /\ status \in {"active", "error"}
    /\ env \in {"open", "adapter"}
    /\ context.person \in {NULL} \cup { grammar[k].person : k \in DOMAIN grammar }
    /\ context.yesno \in {NULL, JSTrue, JSFalse}
    /\ Len(queue) <= 3

\* ------------------------------------------------------------------------
\* Properties
\* ------------------------------------------------------------------------
TimeStates == {"AskTime", "ListenTime", "CheckTime"}

AskOf(s) ==
    CASE s = "ListenPerson" -> "AskPerson"
      [] s = "ListenDay" -> "AskDay"
      [] s = "ListenFullDay" -> "AskFullDay"
      [] s = "ListenTime" -> "AskTime"
      [] s = "ListenConfirm" -> "ConfirmAppointment"

CheckOf(s) ==
    CASE s = "ListenPerson" -> "CheckPerson"
      [] s = "ListenDay" -> "CheckDay"
      [] s = "ListenFullDay" -> "CheckFullDay"
      [] s = "ListenTime" -> "CheckTime"
      [] s = "ListenConfirm" -> "CheckConfirmation"

\* the Session field a Listen state tests on LISTEN_COMPLETE; ListenConfirm
\* writes no field of its own and tests the whole-day flag
ListenSlot(s, c) ==
    CASE s = "ListenPerson" -> c.person
      [] s = "ListenDay" -> c.day
      [] s = "ListenFullDay" -> c.yesno
      [] s = "ListenTime" -> c.time
      [] s = "ListenConfirm" -> c.yesno

\* what the resolver yields for the slot of a stage
Resolve(g, u) ==
    CASE g = "person" -> getPerson(u)
      [] g = "day" -> getNumber(u)
      [] g = "wholeDay" -> getFullDay(u)
      [] g = "time" -> getTime(u)
      [] OTHER -> UNDEFINED

\* the latest step delivered an event of type t to the running machine
Got(t) == status = "active" /\ lastEvent'.type = t

\* C1: whenever the machine leaves CheckConfirmation, whichever guarded
\* branch is taken, person, day, yesno, time and lastResult are all absent
\* in the resulting state.
C1_ResetIsTotal ==
    [][(state = "CheckConfirmation" /\ state' # "CheckConfirmation")
         => /\ context'.person = NULL
            /\ context'.day = NULL
            /\ context'.yesno = NULL
            /\ context'.time = NULL
            /\ context'.lastResult = NullResult]_vars

C1_Witness ==
    /\ prev = "CheckConfirmation"
    /\ state = "Greeting"
    /\ lastEvent.type = "SPEAK_COMPLETE"
    /\ context = InitialContext

\* C2: within one attempt, ConfirmAppointment with the whole-day flag true
\* has not been preceded by AskTime, ListenTime or CheckTime, and with the
\* flag false it has been preceded by all three.
C2_WholeDayExclusive ==
    state = "ConfirmAppointment"
      => /\ context.yesno = JSTrue => visited \cap TimeStates = {}
         /\ context.yesno = JSFalse => TimeStates \subseteq visited

C2_Witness ==
    /\ state = "ConfirmAppointment"
    /\ context.yesno = JSTrue
    /\ "CheckFullDay" \in visited
    /\ visited \cap TimeStates = {}

\* C3: in every Listen state LISTEN_COMPLETE leads to the Check state if
\* the slot of that state is set and back to the Ask state if it is absent.
C3_ListenCompleteRouting ==
    [][(state \in ListenStates /\ Got("LISTEN_COMPLETE"))
         => state' = IF ListenSlot(state, context) # NULL
                     THEN CheckOf(state)
                     ELSE AskOf(state)]_vars

\* C4: after a recognition that resolved no value for the slot being
\* collected (final confirmation included), the machine stays within the
\* states of that stage until it listens again, and the slot keeps its
\* value.
C4_IdempotentReprompt ==
    failed.stage # "none"
      => /\ Stage(state) = failed.stage
         /\ Slot(failed.stage, context) = failed.slot

\* C4 as amended: the reprompt loop holds for person, day, whole day and
\* time; an unresolved answer to the final confirmation leads through
\* CheckConfirmation to Greeting with the Session reset.
C4_RepromptOfSlots ==
    /\ failed.stage \in {"person", "day", "wholeDay", "time"}
         => /\ Stage(state) = failed.stage
            /\ Slot(failed.stage, context) = failed.slot
    /\ failed.stage = "confirm"
         => \/ state = "ListenConfirm"
            \/ /\ state = "CheckConfirmation"
               /\ sent.type = "SPEAK"
                    => sent.utterance
                         = <<"I didn't understand. Let's start over.">>
            \/ state \in {"Greeting", "AskPerson"} /\ context = InitialContext

C4_Witness ==
    /\ failed.stage = "day"
    /\ prev = "CheckDay"
    /\ state = "AskDay"
    /\ context.day = NULL

\* C5: ASR_NOINPUT in a Listen state sets lastResult to null and changes no
\* other field; ListenPerson, ListenDay and ListenTime stay where they are,
\* ListenFullDay goes to AskFullDay and ListenConfirm to ConfirmAppointment
\* at once.
C5_NoInput ==
    [][(state \in ListenStates /\ Got("ASR_NOINPUT"))
         => /\ context' = [context EXCEPT !.lastResult = NullResult]
            /\ state' = CASE state = "ListenFullDay" -> "AskFullDay"
                          [] state = "ListenConfirm" -> "ConfirmAppointment"
                          [] OTHER -> state]_vars

C5_Witness ==
    /\ prev = "ListenFullDay"
    /\ state = "AskFullDay"
    /\ lastEvent.type = "ASR_NOINPUT"
    /\ context.lastResult = NullResult
    /\ context.day # NULL

\* C6: on entering CheckConfirmation the machine speaks "Your appointment
\* has been created!" exactly when the last recorded utterance resolves to
\* true, "Okay, let's start over." exactly when it resolves to false and
\* "I didn't understand. Let's start over." exactly when it resolves to
\* neither; the next SPEAK_COMPLETE leads to Greeting.
C6_ConfirmationOutcome ==
    [][/\ (state # "CheckConfirmation" /\ state' = "CheckConfirmation")
            => LET answer == getConfirm(context'.lastResult.hyps[1].utterance)
               IN /\ sent'.type = "SPEAK"
                  /\ (sent'.utterance
                        = <<"Your appointment has been created!">>)
                       <=> (answer = JSTrue)
                  /\ (sent'.utterance = <<"Okay, let's start over.">>)
                       <=> (answer = JSFalse)
                  /\ (sent'.utterance
                        = <<"I didn't understand. Let's start over.">>)
                       <=> (answer = UNDEFINED)
       /\ (state = "CheckConfirmation" /\ Got("SPEAK_COMPLETE"))
            => state' = "Greeting"]_vars

C6_Witness ==
    /\ state = "CheckConfirmation"
    /\ prev = "ListenConfirm"
    /\ sent = Speak(<<"Okay, let's start over.">>)
    /\ getConfirm(context.lastResult.hyps[1].utterance) = JSFalse

\* the antecedent of the failed person recognition scenario: ListenPerson,
\* person absent, the latest event a RECOGNISED whose utterance is no
\* person key, and LISTEN_COMPLETE delivered now
C7_Scenario ==
    /\ state = "ListenPerson"
    /\ context.person = NULL
    /\ lastEvent.type = "RECOGNISED"
    /\ getPerson(lastEvent.value[1].utterance) = UNDEFINED
    /\ Got("LISTEN_COMPLETE")

\* C7: in that scenario person stays absent and the machine enters
\* CheckPerson, speaking "I didn't understand the person's name."; from
\* there SPEAK_COMPLETE returns it to AskPerson.
C7_FailedPersonViaCheck ==
    [][/\ C7_Scenario
            => /\ context'.person = NULL
               /\ state' = "CheckPerson"
               /\ sent' = Speak(<<"I didn't understand the person's name.">>)
       /\ (state = "CheckPerson" /\ context.person = NULL
             /\ Got("SPEAK_COMPLETE"))
            => state' = "AskPerson"]_vars

\* C7 as amended: in that scenario person stays absent and the machine
\* returns directly to AskPerson, repeating its prompt; CheckPerson is not
\* entered and the failure notice is never spoken.
C7_FailedPersonDirect ==
    [][/\ C7_Scenario
            => /\ context'.person = NULL
               /\ state' = "AskPerson"
               /\ sent' = Speak(<<"Who are you meeting with?">>)
       /\ sent' # Speak(<<"I didn't understand the person's name.">>)]_vars

C7_Witness ==
    /\ prev = "ListenPerson"
    /\ state = "AskPerson"
    /\ lastEvent.type = "LISTEN_COMPLETE"
    /\ failed.stage = "person"
    /\ context.person = NULL
    /\ context.lastResult = Result(<< [utterance |-> <<"b","a","n","a","n","a">>] >>)

\* C8: with an adapter that keeps its protocol, the answers "Vlad",
\* "Monday", "no", "14", "yes" take the machine stage by stage through
\* AskPerson, AskDay, AskFullDay, AskTime and ConfirmAppointment (speaking
\* the summary with Vladislav Maraev, Monday and "at 14:00") to
\* CheckConfirmation, which speaks "Your appointment has been created!",
\* and then to Greeting with the Session reset.
C8_HappyPath ==
    progress.on =>
      CASE progress.n = 0 ->
             state \in {"Prepare", "WaitToStart", "Greeting", "AskPerson",
                        "ListenPerson"}
        [] progress.n = 1 ->
             /\ state \in {"ListenPerson", "CheckPerson", "AskDay",
                           "ListenDay"}
             /\ context.person = "Vladislav Maraev"
             /\ (state = "CheckPerson" /\ sent.type = "SPEAK")
                  => sent.utterance
                       = <<"You will meet ", "Vladislav Maraev", ".">>
        [] progress.n = 2 ->
             /\ state \in {"ListenDay", "CheckDay", "AskFullDay",
                           "ListenFullDay"}
             /\ context.day = "Monday"
        [] progress.n = 3 ->
             /\ state \in {"ListenFullDay", "CheckFullDay", "AskTime",
                           "ListenTime"}
             /\ context.yesno = JSFalse
        [] progress.n = 4 ->
             /\ state \in {"ListenTime", "CheckTime", "ConfirmAppointment",
                           "ListenConfirm"}
             /\ context.time = "14:00"
             /\ (state = "ConfirmAppointment" /\ sent.type = "SPEAK")
                  => sent.utterance
                       = <<"Do you want me to create an appointment with ",
                           "Vladislav Maraev", " ", "on ", "Monday", " ",
                           "at ", "14:00", "?">>
        [] OTHER ->
             /\ state \in {"ListenConfirm", "CheckConfirmation", "Greeting"}
             /\ state # "Greeting"
                  => /\ {"AskPerson", "AskDay", "AskFullDay", "AskTime",
                         "ConfirmAppointment"} \subseteq visited
                     /\ context.person = "Vladislav Maraev"
                     /\ context.day = "Monday"
                     /\ context.yesno = JSFalse
                     /\ context.time = "14:00"
             /\ (state = "CheckConfirmation" /\ sent.type = "SPEAK")
                  => sent.utterance
                       = <<"Your appointment has been created!">>
             /\ state = "Greeting"
                  => /\ prev \in {"CheckConfirmation", "Greeting"}
                     /\ context = InitialContext

C8_Witness ==
    /\ progress = OnScript(Len(HappyScript))
    /\ prev = "CheckConfirmation"
    /\ state = "Greeting"
    /\ sent = Speak(<<"Hi, let's create an appointment">>)
    /\ context = InitialContext

\* C9: RECOGNISED in a Listen state causes no transition, always stores the
\* event's value in lastResult, writes the slot of that Listen state
\* exactly when the first hypothesis resolves to a value for it, and
\* changes no other slot.
C9_RecognisedFrame ==
    [][(state \in ListenStates /\ Got("RECOGNISED"))
         => LET u == lastEvent'.value[1].utterance IN
            /\ state' = state
            /\ sent' = NoDirective
            /\ context'.lastResult = Result(lastEvent'.value)
            /\ \A g \in {"person", "day", "wholeDay", "time"} :
                 Slot(g, context')
                   = IF g = Stage(state) /\ Resolve(g, u) # UNDEFINED
                     THEN Resolve(g, u)
                     ELSE Slot(g, context)]_vars

C9_Witness ==
    /\ state = "ListenPerson"
    /\ prev = "ListenPerson"
    /\ lastEvent.type = "RECOGNISED"
    /\ getPerson(lastEvent.value[1].utterance) = UNDEFINED
    /\ context.person = "Vladislav Maraev"
    /\ context.lastResult = Result(lastEvent.value)

\* C10: an event delivered to a state that declares no handler for its
\* type changes neither the state value nor the context and sends no
\* directive; CLICK has an effect only in WaitToStart and Done.
C10_UnhandledIgnored ==
    [][(\/ (Got("ASRTTS_READY") /\ state # "Prepare")
        \/ (Got("CLICK") /\ state \notin {"WaitToStart", "Done"})
        \/ (Got("SPEAK_COMPLETE") /\ state \notin SpeakStates)
        \/ (Got("RECOGNISED") /\ state \notin ListenStates)
        \/ (Got("LISTEN_COMPLETE") /\ state \notin ListenStates)
        \/ (Got("ASR_NOINPUT") /\ state \notin ListenStates))
         => /\ state' = state
            /\ context' = context
            /\ status' = status
            /\ sent' = NoDirective]_vars

C10_Witness ==
    /\ lastEvent.type = "CLICK"
    /\ state = "ListenDay"
    /\ prev = "ListenDay"
    /\ sent = NoDirective
    /\ context.person # NULL

\* C11: whenever the machine enters Greeting the Session is empty, and a
\* slot (person, day, yesno, time) goes from set to absent only in the step
\* that leaves CheckConfirmation.
C11_AttemptsStartClean ==
    [][/\ state' = "Greeting" => context' = InitialContext
       /\ \A g \in {"person", "day", "wholeDay", "time"} :
            (Slot(g, context) # NULL /\ Slot(g, context') = NULL)
              => (state = "CheckConfirmation" /\ state' = "Greeting")]_vars

C11_Witness ==
    /\ state = "Greeting"
    /\ prev = "CheckConfirmation"
    /\ ~progress.on
    /\ failed.stage = "confirm"
    /\ context = InitialContext

\* ------------------------------------------------------------------------
\* The resolvers on their own: every grammar key and a few other texts, in
\* every letter case
\* ------------------------------------------------------------------------
UpperChar(c) ==
    CASE c = "a" -> "A"
      [] c = "b" -> "B"
      [] c = "c" -> "C"
      [] c = "d" -> "D"
      [] c = "e" -> "E"
      [] c = "f" -> "F"
      [] c = "g" -> "G"
      [] c = "h" -> "H"
      [] c = "i" -> "I"
      [] c = "j" -> "J"
      [] c = "k" -> "K"
      [] c = "l" -> "L"
      [] c = "m" -> "M"
      [] c = "n" -> "N"
      [] c = "o" -> "O"
      [] c = "p" -> "P"
      [] c = "q" -> "Q"
      [] c = "r" -> "R"
      [] c = "s" -> "S"
      [] c = "t" -> "T"
      [] c = "u" -> "U"
      [] c = "v" -> "V"
      [] c = "w" -> "W"
      [] c = "x" -> "X"
      [] c = "y" -> "Y"
      [] c = "z" -> "Z"
      [] OTHER -> c

RECURSIVE CaseVariants(_)
CaseVariants(k) ==
    IF k = << >>
    THEN { << >> }
    ELSE { <<c>> \o r : c \in {k[1], UpperChar(k[1])},
                        r \in CaseVariants(Tail(k)) }

\* lower-case texts that are not grammar keys
NonKeys ==
    { << >>,
      <<"b","a","n","a","n","a">>,
      <<"v","l","a","d"," ">>,
      <<"y","e","s","s">>,
      <<"m","o","n","d","a">>,
      <<"1">>,
      <<"o","f","c","o","u","r","s","e">> }

ResolverInputs ==
    UNION { { [text |-> v, lower |-> k] : v \in CaseVariants(k) } :
              k \in DOMAIN grammar \cup NonKeys }

InitResolver ==
    /\ InitMachine
    /\ env = "open"
    /\ queue = << >>
    /\ input \in ResolverInputs
    /\ call = NoCall

Called(fn, result) ==
    /\ call' = [fn |-> fn, arg |-> input, result |-> result]
    /\ UNCHANGED <<state, context, status, sent, queue, env, prev, lastEvent,
                   visited, progress, failed, outcome, startup, input>>

Call_getPerson == Called("getPerson", getPerson(input.text))
Call_getNumber == Called("getNumber", getNumber(input.text))
Call_getFullDay == Called("getFullDay", getFullDay(input.text))
Call_getTime == Called("getTime", getTime(input.text))
Call_getConfirm == Called("getConfirm", getConfirm(input.text))

NextResolver ==
    \/ Call_getPerson
    \/ Call_getNumber
    \/ Call_getFullDay
    \/ Call_getTime
    \/ Call_getConfirm

SpecResolver == InitResolver /\ [][NextResolver]_vars

\* C12: every resolver returns for a text what it returns for the
\* lower-cased text, and returns no value when the lower-cased text is not
\* a grammar key.
C12_CaseInsensitive ==
    call.fn # "none"
      => LET onLower ==
               CASE call.fn = "getPerson" -> getPerson(call.arg.lower)
                 [] call.fn = "getNumber" -> getNumber(call.arg.lower)
                 [] call.fn = "getFullDay" -> getFullDay(call.arg.lower)
                 [] call.fn = "getTime" -> getTime(call.arg.lower)
                 [] call.fn = "getConfirm" -> getConfirm(call.arg.lower)
         IN /\ toLowerCase(call.arg.text) = call.arg.lower
            /\ call.result = onLower
            /\ call.arg.lower \notin DOMAIN grammar
                 => call.result = UNDEFINED

C12_Witness ==
    /\ call.fn = "getConfirm"
    /\ call.arg.text = <<"Y","e","S">>
    /\ call.result = JSTrue

\* C13: on SPEAK_COMPLETE CheckPerson, CheckDay and CheckTime advance (to
\* AskDay, AskFullDay, ConfirmAppointment) if their slot is set and return
\* to their Ask state otherwise; CheckFullDay goes to ConfirmAppointment
\* for true, to AskTime for false and back to AskFullDay while unset.
C13_CheckBranching ==
    [][Got("SPEAK_COMPLETE")
         => /\ state = "CheckPerson"
                 => state' = IF context.person # NULL
                             THEN "AskDay" ELSE "AskPerson"
            /\ state = "CheckDay"
                 => state' = IF context.day # NULL
                             THEN "AskFullDay" ELSE "AskDay"
            /\ state = "CheckTime"
                 => state' = IF context.time # NULL
                             THEN "ConfirmAppointment" ELSE "AskTime"
            /\ state = "CheckFullDay"
                 => state' = CASE context.yesno = JSTrue
                                    -> "ConfirmAppointment"
                               [] context.yesno = JSFalse -> "AskTime"
                               [] OTHER -> "AskFullDay"]_vars

C13_Witness ==
    /\ prev = "CheckFullDay"
    /\ state = "AskFullDay"
    /\ lastEvent.type = "SPEAK_COMPLETE"
    /\ context.yesno = NULL
    /\ context.day # NULL

\* C14: the text spoken on entering a Check state confirms a value only
\* when the slot holds exactly that value and is a failure notice when the
\* slot is absent; CheckFullDay does not speak "Ok, the meeting will not be
\* the whole day." while the whole-day flag is unset.
C14_CheckUtterance ==
    [][(state' # state /\ sent'.type = "SPEAK")
         => /\ state' = "CheckPerson"
                 => sent'.utterance
                      = IF context'.person # NULL
                        THEN <<"You will meet ", context'.person, ".">>
                        ELSE <<"I didn't understand the person's name.">>
            /\ state' = "CheckDay"
                 => sent'.utterance
                      = IF context'.day # NULL
                        THEN <<"The day will be ", context'.day, ".">>
                        ELSE <<"I did't understand the day">>
            /\ state' = "CheckTime"
                 => sent'.utterance
                      = IF context'.time # NULL
                        THEN <<"You will meet at ", context'.time, ".">>
                        ELSE <<"I did not understand the time.">>
            /\ state' = "CheckFullDay"
                 => /\ (sent'.utterance
                          = <<"Ok, you will take the whole day.">>)
                         <=> (context'.yesno = JSTrue)
                    /\ (sent'.utterance
                          = <<"Ok, the meeting will not be the whole day.">>)
                         <=> (context'.yesno = JSFalse)]_vars

\* C15: in ConfirmAppointment and ListenConfirm person, day and the
\* whole-day flag are set; time is set if the flag is false and absent if
\* it is true; the spoken summary contains no absent value.
C15_SummaryComplete ==
    state \in {"ConfirmAppointment", "ListenConfirm"}
      => /\ context.person # NULL
         /\ context.day # NULL
         /\ context.yesno \in {JSTrue, JSFalse}
         /\ context.yesno = JSFalse => context.time # NULL
         /\ context.yesno = JSTrue => context.time = NULL
         /\ sent.type = "SPEAK"
              => \A i \in 1..Len(sent.utterance) :
                   sent.utterance[i] \notin {NULL, UNDEFINED}

C15_Witness ==
    /\ state = "ConfirmAppointment"
    /\ sent.type = "SPEAK"
    /\ sent.utterance[Len(sent.utterance)] = "for the whole day?"
    /\ context.time = NULL
    /\ context.person = "Vladislav Maraev"

\* C16: whenever the machine is in CheckConfirmation, the utterance it
\* resolves was recorded by a RECOGNISED event received during the visit to
\* ListenConfirm that led there.
C16_FreshAnswer ==
    state = "CheckConfirmation"
      => /\ outcome.kind = "RECOGNISED"
         /\ outcome.stage = "confirm"

\* C17: lastResult is non-absent with at least one hypothesis whenever the
\* machine enters or is in CheckConfirmation, so that neither the entry
\* action nor the SPEAK_COMPLETE guards ever raise an error.
C17_NeverThrows ==
    /\ status = "active"
    /\ state = "CheckConfirmation"
         => /\ ~context.lastResult.isNull
            /\ Len(context.lastResult.hyps) >= 1

\* the adapter keeps replying: an event that is in flight is eventually
\* delivered
SpecAdapterLive ==
    /\ InitAdapter
    /\ [][Next]_vars
    /\ WF_vars(Next /\ lastEvent'.type # "CLICK")

AskStateOf(g) ==
    CASE g = "person" -> "AskPerson"
      [] g = "day" -> "AskDay"
      [] g = "wholeDay" -> "AskFullDay"
      [] g = "time" -> "AskTime"
      [] g = "confirm" -> "ConfirmAppointment"

\* C18: after ASR_NOINPUT in a Listen state the machine stays within the
\* states of that stage with its slots unchanged, and eventually re-enters
\* the Ask state of that stage and speaks its prompt again.
C18_NoInputReprompts ==
    /\ [](outcome.kind = "ASR_NOINPUT"
            => /\ Stage(state) = outcome.stage
               /\ Slots(context) = outcome.slots)
    /\ \A g \in {"person", "day", "wholeDay", "time", "confirm"} :
         (/\ lastEvent.type = "ASR_NOINPUT"
          /\ prev \in ListenStates
          /\ outcome.kind = "ASR_NOINPUT"
          /\ outcome.stage = g)
           ~> /\ outcome.kind = "ASR_NOINPUT"
              /\ outcome.stage = g
              /\ state = AskStateOf(g)
              /\ sent.type = "SPEAK"
              /\ Slots(context) = outcome.slots

C18_Witness ==
    /\ outcome.kind = "ASR_NOINPUT"
    /\ outcome.stage = "time"
    /\ prev = "CheckTime"
    /\ state = "AskTime"
    /\ sent = Speak(<<"What time is your meeting?">>)
    /\ context.time = NULL

\* a directive is outstanding as long as the event that completes it is
\* still on its way to the machine
IsCompletion(e) == e.type \in {"SPEAK_COMPLETE", "LISTEN_COMPLETE"}

Outstanding == SelectSeq(queue, IsCompletion)

\* C19: at most one SPEAK or LISTEN directive is outstanding; the machine
\* never sends SPEAK while a LISTEN awaits its LISTEN_COMPLETE.
C19_OneOutstanding == Len(Outstanding) <= 1

\* C19 as amended: at most one directive is outstanding, except after
\* ASR_NOINPUT in ListenFullDay or ListenConfirm, where the SPEAK of
\* AskFullDay / ConfirmAppointment is sent while the LISTEN still awaits
\* its LISTEN_COMPLETE; never more than these two.
C19_OutstandingDirectives ==
    \/ Len(Outstanding) <= 1
    \/ /\ Outstanding = << Ev("LISTEN_COMPLETE"), Ev("SPEAK_COMPLETE") >>
       /\ state \in {"AskFullDay", "ConfirmAppointment"}
       /\ outcome.kind = "ASR_NOINPUT"
       /\ outcome.stage = Stage(state)

C19_Witness ==
    /\ state = "ConfirmAppointment"
    /\ prev = "ListenConfirm"
    /\ lastEvent.type = "ASR_NOINPUT"
    /\ sent.type = "SPEAK"
    /\ queue = << Ev("LISTEN_COMPLETE"), Ev("SPEAK_COMPLETE") >>

ListenCompletePending(q) ==
    \E i \in 1..Len(q) : q[i].type = "LISTEN_COMPLETE"

\* C20: with in-order delivery, a LISTEN_COMPLETE is acted on only in the
\* Listen visit whose RECOGNISED or ASR_NOINPUT it follows, and none is
\* left over for a later visit; the one that trails ASR_NOINPUT in
\* ListenFullDay or ListenConfirm arrives in the Ask state and is ignored.
C20_ListenCompleteBelongs ==
    [][Got("LISTEN_COMPLETE") =>
         \/ /\ state \in ListenStates
            /\ outcome.kind \in {"RECOGNISED", "ASR_NOINPUT"}
            /\ outcome.stage = Stage(state)
            /\ ~ ListenCompletePending(queue')
         \/ /\ state \in {"AskFullDay", "ConfirmAppointment"}
            /\ outcome.kind = "ASR_NOINPUT"
            /\ outcome.stage = Stage(state)
            /\ state' = state
            /\ context' = context
            /\ sent' = NoDirective
            /\ ~ ListenCompletePending(queue')]_vars

C20_Witness ==
    /\ state = "AskFullDay"
    /\ prev = "AskFullDay"
    /\ lastEvent.type = "LISTEN_COMPLETE"
    /\ outcome.kind = "ASR_NOINPUT"
    /\ queue = << Ev("SPEAK_COMPLETE") >>

\* C21: PREPARE is the first directive and is sent only once, on start;
\* no SPEAK or LISTEN is sent, and no dialogue state is entered, before
\* ASRTTS_READY and after it a CLICK have been received; a CLICK received
\* in Prepare changes nothing, and the ASRTTS_READY that follows leads to
\* WaitToStart without speaking.
C21_StartUpOrdering ==
    /\ (sent.type = "PREPARE") <=> (lastEvent.type = "xstate.init")
    /\ lastEvent.type = "xstate.init" =>
          state = "Prepare" /\ startup = "none"
    /\ startup = "none" => state = "Prepare"
    /\ startup # "clicked" =>
          /\ state \in {"Prepare", "WaitToStart"}
          /\ sent.type \notin {"SPEAK", "LISTEN"}
    /\ (prev = "Prepare" /\ lastEvent.type = "CLICK") =>
          /\ state = "Prepare"
          /\ context = InitialContext
          /\ sent = NoDirective
          /\ startup = "none"
    /\ (prev = "Prepare" /\ lastEvent.type = "ASRTTS_READY") =>
          /\ state = "WaitToStart"
          /\ sent = NoDirective

C21_Witness ==
    /\ state = "Greeting"
    /\ prev = "WaitToStart"
    /\ lastEvent.type = "CLICK"
    /\ startup = "clicked"
    /\ sent = GreetingEntry

====
